---------------------------- MODULE Spec2Model ----------------------------
(***************************************************************************)
(* Conversation-state manager of the ollamate desktop client.              *)
(*                                                                         *)
(* The durable store is the SQLite file opened by App (tables              *)
(* conversations, settings, chat_messages); the in-memory state is the     *)
(* React state of App (db handle, dbError, conversations, isDbLoading,     *)
(* location) and of ChatPage (conversation mirror, isLoading, error).      *)
(* Every asynchronous handler is cut at its awaits: one action resumes the *)
(* handler from its previous await, runs the synchronous code that         *)
(* follows and executes the next awaited store statement.  Every store     *)
(* statement may fail, leaving the store as it was.  A select returns its  *)
(* rows in any order that agrees with its ORDER BY key.                    *)
(***************************************************************************)
EXTENDS Integers, Sequences, FiniteSets, TLC

(* ------------------------------ bounds -------------------------------- *)
MaxConvs == 2      \* conversations created over the life of the store
MaxMsgs == 3       \* message rows inserted over the life of the store
MaxClock == 1      \* distinct CURRENT_TIMESTAMP values (seconds)
MaxMirror == 3     \* entries of the mirror beyond which the user sends nothing
MaxRuns == 2       \* process starts (each runs initializeDatabase)
MaxReloads == 2    \* loadHistoryFromDb calls in flight at once
MaxSubmits == 2    \* handleSubmit calls in flight at once
MaxClicks == 3     \* user gestures in a behaviour

(* --------------------------- program values --------------------------- *)
\* the conversation_id of a row written before the column existed (no id is 0)
NULL == 0
SystemPromptKey == "global_system_prompt"
DefaultPrompt == "You are a helpful assistant."
AllRoles == {"user", "assistant", "system"}
LegacyRoles == {"user", "assistant"}
ConvName == "New Chat"

\* inputs: the texts a user types and the engine answers
PromptInputs == {"Hi", "How are you?"}
\* texts as typed into the prompt field, with white space around or alone
TypedInputs == {"", " ", " Hi", "Hi\n", "Hi"}
\* the :conversationId segment of a /chat route
RouteParams == {"1", "0", "abc"}
ReplyInputs == {"Hello"}
ContextInputs == {"", "Be terse"}
\* role values an INSERT INTO chat_messages may carry
RoleInputs == AllRoles \cup {"tool", ""}

VARIABLES
    \* durable store (the SQLite file)
    schema,         \* which tables / column / index exist, and the role CHECK
    convRows,       \* rows of conversations
    convSeq,        \* AUTOINCREMENT high-water mark of conversations
    msgRows,        \* rows of chat_messages
    msgSeq,         \* AUTOINCREMENT high-water mark of chat_messages
    settings,       \* rows of settings
    \* App component state
    db, dbError, conversations, isDbLoading, location,
    init,           \* the initializeDatabase calls of this mount, one per run of the effect
    creates,        \* the running handleNewChat call
    deletes,        \* the running handleDeleteConversation call
    \* ChatPage component state
    conversation, isLoading, error, selectedModel,
    reloads,        \* running loadHistoryFromDb calls
    submits,        \* running handleSubmit calls
    settingsPage,   \* SettingsPage component state and its fetchContext call
    \* history variables
    runs,           \* process starts so far
    bootOK,         \* the schema bootstrap has run to its end at least once
    clicks,         \* user gestures so far
    saved,          \* the values of the handleSave calls that succeeded, in order
    event           \* the handler that returned in the last step, if one did

storeVars == <<schema, convRows, convSeq, msgRows, msgSeq, settings>>
appVars == <<db, dbError, conversations, isDbLoading, location, init, creates, deletes>>
chatVars == <<conversation, isLoading, error, selectedModel, reloads, submits,
              settingsPage>>
vars == <<storeVars, appVars, chatVars, runs, bootOK, clicks, saved, event>>

(* ------------------------------ helpers ------------------------------- *)
Range(s) == {s[i] : i \in DOMAIN s}

\* all orderings of the finite set S as sequences without repetition
Perms(S) ==
    {s \in [1..Cardinality(S) -> S] : \A i, j \in 1..Cardinality(S) : i # j => s[i] # s[j]}

Max(S) == IF S = {} THEN 0 ELSE CHOOSE m \in S : \A x \in S : x <= m

\* DEFAULT CURRENT_TIMESTAMP, to the second: the clock does not run backwards,
\* so a new row's time is that of the latest row or a later one
Now(times) == {t \in Max(times)..(Max(times) + 1) : t <= MaxClock}

(* --------------------------- schema (DDL) ----------------------------- *)
NoSchema ==
    [conversations |-> FALSE, settings |-> FALSE, chat_messages |-> FALSE,
     conversation_id |-> FALSE, roles |-> {}, index |-> FALSE]

\* the chat_messages table of the earlier single-conversation version
LegacySchema ==
    [NoSchema EXCEPT !.chat_messages = TRUE, !.roles = LegacyRoles]

\* CREATE TABLE IF NOT EXISTS conversations
CreateConversationsTable(s) == [s EXCEPT !.conversations = TRUE]

\* CREATE TABLE IF NOT EXISTS settings
CreateSettingsTable(s) == [s EXCEPT !.settings = TRUE]

\* CREATE TABLE IF NOT EXISTS chat_messages, with CHECK(role IN (...)) and
\* without conversation_id; an existing table is left as it is
CreateMessagesTable(s) ==
    IF s.chat_messages THEN s
    ELSE [s EXCEPT !.chat_messages = TRUE, !.roles = AllRoles]

\* ALTER TABLE chat_messages ADD COLUMN conversation_id: "ok", or the
\* "duplicate column name" error when the column is already there
AlterOutcome(s) == IF s.conversation_id THEN "duplicate" ELSE "ok"
AddConversationIdColumn(s) == [s EXCEPT !.conversation_id = TRUE]

\* an index statement that drops the index it finds
CreateIndexOrDrop(s) == [s EXCEPT !.index = ~s.index]

\* CREATE INDEX IF NOT EXISTS idx_conversation_id ON chat_messages(conversation_id)
\* fails when the column does not exist
IndexOutcome(s) == IF s.index \/ s.conversation_id THEN "ok" ELSE "error"
CreateIndex(s) == [s EXCEPT !.index = TRUE]

(* ----------------------------- settings ------------------------------- *)
\* a seed that overwrites the stored value
InsertOrOverwrite(rows, k, v) ==
    {r \in rows : r.key # k} \cup {[key |-> k, value |-> v]}

\* INSERT OR IGNORE INTO settings (key, value): key is the PRIMARY KEY
InsertOrIgnore(rows, k, v) ==
    IF \E r \in rows : r.key = k THEN rows ELSE rows \cup {[key |-> k, value |-> v]}

\* a write that adds a row and keeps the one stored
InsertAgain(rows, k, v) == rows \cup {[key |-> k, value |-> v]}

\* INSERT OR REPLACE INTO settings (key, value)
InsertOrReplace(rows, k, v) ==
    {r \in rows : r.key # k} \cup {[key |-> k, value |-> v]}

\* SELECT value FROM settings WHERE key = $1
SelectSetting(rows, k) == {r.value : r \in {x \in rows : x.key = k}}

\* contextResult.length > 0 ? contextResult[0].value : default
ResolvePrompt(result) ==
    IF result = {} THEN DefaultPrompt ELSE CHOOSE v \in result : TRUE


(* --------------------------- conversations ---------------------------- *)
\* an INTEGER PRIMARY KEY without AUTOINCREMENT: one more than the largest
\* stored id
InsertConversationRowid(rows, seq, t) ==
    rows \cup {[id |-> 1 + (IF rows = {} THEN 0
                             ELSE CHOOSE i \in {r.id : r \in rows} :
                                    \A r \in rows : r.id <= i),
                name |-> ConvName, created_at |-> t]}

\* INSERT INTO conversations (name) VALUES ($1): AUTOINCREMENT id, created_at
\* DEFAULT CURRENT_TIMESTAMP
InsertConversation(rows, seq, t) ==
    rows \cup {[id |-> seq + 1, name |-> ConvName, created_at |-> t]}

\* SELECT id, name, created_at FROM conversations ORDER BY created_at DESC:
\* every order of the rows that is descending in created_at (SQL leaves the
\* order of rows with equal keys open)
SelectConversations(rows) ==
    {s \in Perms(rows) :
        \A i, j \in DOMAIN s : i < j => s[i].created_at >= s[j].created_at}

\* SELECT id FROM conversations ORDER BY id DESC LIMIT 1
SelectLatestId(rows) ==
    IF rows = {} THEN <<>>
    ELSE <<CHOOSE i \in {r.id : r \in rows} : \A r \in rows : r.id <= i>>

\* DELETE FROM conversations WHERE id = $1
DeleteConversationRow(rows, id) == {r \in rows : r.id # id}

(* ------------------------------ messages ------------------------------ *)
\* a table without the CHECK on role
InsertAcceptedAnyRole(s, role) == s.chat_messages /\ s.conversation_id

\* INSERT INTO chat_messages (conversation_id, role, content): the CHECK on
\* role rejects a role the table does not list
InsertAccepted(s, role) == s.chat_messages /\ s.conversation_id /\ role \in s.roles

\* a write that puts its row in the place of the row stored last
InsertMessageReplacing(rows, seq, cid, role, content, t) ==
    {r \in rows : r.id # seq} \cup
        {[id |-> seq + 1, conversation_id |-> cid, role |-> role,
          content |-> content, timestamp |-> t]}

\* the row the INSERT adds: AUTOINCREMENT id, timestamp DEFAULT CURRENT_TIMESTAMP
InsertMessage(rows, seq, cid, role, content, t) ==
    rows \cup {[id |-> seq + 1, conversation_id |-> cid, role |-> role,
                content |-> content, timestamp |-> t]}

\* SELECT role, content FROM chat_messages WHERE conversation_id = $1
\* ORDER BY timestamp ASC: every order of the conversation's rows that is
\* ascending in timestamp, projected to (role, content)
Projection(s) == [i \in DOMAIN s |-> [role |-> s[i].role, content |-> s[i].content]]

\* a select that also returns the rows without a conversation_id
SelectMessagesOrAbsent(rows, cid) ==
    {Projection(s) : s \in
        {p \in Perms({r \in rows : r.conversation_id \in {cid, NULL}}) :
            \A i, j \in DOMAIN p : i < j => p[i].timestamp <= p[j].timestamp}}

\* the select of the messages of conversation cid
SelectMessages(rows, cid) ==
    {Projection(s) : s \in
        {p \in Perms({r \in rows : r.conversation_id = cid}) :
            \A i, j \in DOMAIN p : i < j => p[i].timestamp <= p[j].timestamp}}

\* a statement that reports success and deletes nothing
DeleteMessagesKeeps(rows, cid) == rows

\* DELETE FROM chat_messages WHERE conversation_id = $1
DeleteMessages(rows, cid) == {r \in rows : r.conversation_id # cid}

\* the statements on chat_messages need the table and its conversation_id column
MessagesQueryable(s) == s.chat_messages /\ s.conversation_id

(* ------------------------------- tasks -------------------------------- *)
\* a handler that issues a statement a second time when it has issued it
AttemptAgain(log, statement) == Append(Append(log, statement), statement)

\* log: the statements and engine calls a handler has issued, in order
Attempt(log, statement) == Append(log, statement)

Idle == [pc |-> "idle"]
\* no SettingsPage is mounted
SettingsOff == [mounted |-> FALSE]
NoEvent == [op |-> "none"]
Home == [page |-> "home", id |-> 0]
SettingsRoute == [page |-> "settings", id |-> 0]
ChatRoute(id) == [page |-> "chat", id |-> id]

\* what the store held when a handler started (history only)
Snapshot(s, c, m, k) == [schema |-> s, convRows |-> c, msgRows |-> m, settings |-> k]

\* an initializeDatabase call at its start; fault: a statement failed for a
\* reason outside the store's contents (I/O, a locked file), alter: how the
\* ALTER TABLE ended, booted: the store had been bootstrapped before
NewInit(snap, booted) ==
    [pc |-> "load", fault |-> FALSE, alter |-> "none", result |-> <<>>,
     snap |-> snap, booted |-> booted]

\* the sidebar and the routes are rendered: not "Loading Database..."
Rendered == ~isDbLoading

\* a user gesture: a click on a link or a button, a form submit
Click == clicks < MaxClicks /\ clicks' = clicks + 1

(* ------------------------- initializeDatabase ------------------------- *)
appRest == <<dbError, conversations, isDbLoading, location, creates, deletes>>

\* a statement of the try block that throws: control goes to the catch
InitThrow(self) ==
    /\ init' = [init EXCEPT ![self].pc = "catch", ![self].fault = TRUE]
    /\ event' = NoEvent
    /\ UNCHANGED <<storeVars, db, appRest, chatVars, runs, saved, bootOK, clicks>>

InitStep(self, next) ==
    /\ init' = [init EXCEPT ![self].pc = next]
    /\ event' = NoEvent
    /\ UNCHANGED <<appRest, chatVars, runs, saved>>

\* const loadedDb = await Database.load(DB_NAME); setDb(loadedDb)
InitLoad ==
  \E self \in DOMAIN init :
    /\ init[self].pc = "load"
    /\ \/ /\ db' = TRUE
          /\ InitStep(self, "conversations")
          /\ UNCHANGED <<storeVars, bootOK, clicks>>
       \/ InitThrow(self)

InitCreateConversations ==
  \E self \in DOMAIN init :
    /\ init[self].pc = "conversations"
    /\ \/ /\ schema' = CreateConversationsTable(schema)
          /\ InitStep(self, "settings")
          /\ UNCHANGED <<db, convRows, convSeq, msgRows, msgSeq, settings, bootOK, clicks>>
       \/ InitThrow(self)

InitCreateSettings ==
  \E self \in DOMAIN init :
    /\ init[self].pc = "settings"
    /\ \/ /\ schema' = CreateSettingsTable(schema)
          /\ InitStep(self, "chat_messages")
          /\ UNCHANGED <<db, convRows, convSeq, msgRows, msgSeq, settings, bootOK, clicks>>
       \/ InitThrow(self)

InitCreateMessages ==
  \E self \in DOMAIN init :
    /\ init[self].pc = "chat_messages"
    /\ \/ /\ schema' = CreateMessagesTable(schema)
          /\ InitStep(self, "alter")
          /\ UNCHANGED <<db, convRows, convSeq, msgRows, msgSeq, settings, bootOK, clicks>>
       \/ InitThrow(self)

\* the inner try/catch around ALTER TABLE: the duplicate-column error is
\* logged, and so is every other error (the rethrow is commented out)
AlterCatch(i, duplicate) ==
    [i EXCEPT !.pc = "index", !.alter = IF duplicate THEN "duplicate" ELSE "error"]

InitAlter ==
  \E self \in DOMAIN init :
    /\ init[self].pc = "alter"
    /\ \/ /\ AlterOutcome(schema) = "ok"
          /\ schema' = AddConversationIdColumn(schema)
          /\ init' = [init EXCEPT ![self].pc = "index", ![self].alter = "ok"]
       \/ /\ AlterOutcome(schema) = "duplicate"
          /\ schema' = schema
          /\ init' = [init EXCEPT ![self] = AlterCatch(init[self], TRUE)]
       \/ /\ schema' = schema
          /\ init' = [init EXCEPT ![self] = AlterCatch(init[self], FALSE)]
    /\ event' = NoEvent
    /\ UNCHANGED <<db, convRows, convSeq, msgRows, msgSeq, settings,
                   appRest, chatVars, runs, saved, bootOK, clicks>>

\* CREATE INDEX throws by itself when the column is not there
InitIndex ==
  \E self \in DOMAIN init :
    /\ init[self].pc = "index"
    /\ \/ /\ IndexOutcome(schema) = "ok"
          /\ schema' = CreateIndex(schema)
          /\ InitStep(self, "seed")
          /\ UNCHANGED <<db, convRows, convSeq, msgRows, msgSeq, settings, bootOK, clicks>>
       \/ /\ IndexOutcome(schema) = "error"
          /\ init' = [init EXCEPT ![self].pc = "catch"]
          /\ event' = NoEvent
          /\ UNCHANGED <<storeVars, db, appRest, chatVars, runs, saved, bootOK, clicks>>
       \/ InitThrow(self)

\* the last statement of the schema bootstrap
InitSeed ==
  \E self \in DOMAIN init :
    /\ init[self].pc = "seed"
    /\ \/ /\ settings' = InsertOrIgnore(settings, SystemPromptKey, DefaultPrompt)
          /\ InitStep(self, "select")
          /\ bootOK' = TRUE
          /\ UNCHANGED clicks
          /\ UNCHANGED <<db, schema, convRows, convSeq, msgRows, msgSeq>>
       \/ InitThrow(self)

\* await loadConversations(loadedDb): the select, whose error is caught inside
InitSelectConversations ==
  \E self \in DOMAIN init :
    /\ init[self].pc = "select"
    /\ \/ \E r \in SelectConversations(convRows) :
            init' = [init EXCEPT ![self].pc = "finish", ![self].result = <<"ok", r>>]
       \/ init' = [init EXCEPT ![self].pc = "finish", ![self].result = <<"error">>, ![self].fault = TRUE]
    /\ event' = NoEvent
    /\ UNCHANGED <<storeVars, db, appRest, chatVars, runs, saved, bootOK, clicks>>

\* setConversations(loadedConvos) or setDbError(...); finally setIsDbLoading(false)
InitFinish ==
  \E self \in DOMAIN init :
    /\ init[self].pc = "finish"
    /\ IF init[self].result[1] = "ok"
       THEN conversations' = init[self].result[2] /\ dbError' = dbError
       ELSE conversations' = conversations /\ dbError' = "load"
    /\ isDbLoading' = FALSE
    /\ init' = [init EXCEPT ![self].pc = "done"]
    /\ event' = [op |-> "init", outcome |-> "ok", task |-> init[self]]
    /\ UNCHANGED <<storeVars, db, location, creates, deletes, chatVars, runs, saved, bootOK, clicks>>

\* a ChatPage instance as useState creates it
FreshChat ==
    /\ conversation' = <<>>
    /\ isLoading' = FALSE
    /\ error' = {}
    /\ selectedModel' = ""
    /\ reloads' = <<>>

\* the routes render ChatPage and SettingsPage only with a handle: without
\* one the mounted page is unmounted
Unmount ==
    /\ FreshChat
    /\ submits' = [i \in DOMAIN submits |->
                     [submits[i] EXCEPT !.live = FALSE, !.switched = TRUE]]
    /\ settingsPage' = SettingsOff

\* a catch that leaves the handle Database.load returned
InitCatchKeepsHandle ==
  \E self \in DOMAIN init :
    /\ init[self].pc = "catch"
    /\ dbError' = "init"
    /\ isDbLoading' = FALSE
    /\ init' = [init EXCEPT ![self].pc = "done"]
    /\ event' = [op |-> "init", outcome |-> "aborted", task |-> init[self]]
    /\ UNCHANGED <<storeVars, db, conversations, location, creates, deletes, chatVars,
                   runs, saved, bootOK, clicks>>

\* catch: setDbError(...); setDb(null); finally setIsDbLoading(false)
InitCatch ==
  \E self \in DOMAIN init :
    /\ init[self].pc = "catch"
    /\ dbError' = "init"
    /\ db' = FALSE
    /\ Unmount
    /\ isDbLoading' = FALSE
    /\ init' = [init EXCEPT ![self].pc = "done"]
    /\ event' = [op |-> "init", outcome |-> "aborted", task |-> init[self]]
    /\ UNCHANGED <<storeVars, conversations, location, creates, deletes,
                   runs, saved, bootOK, clicks>>

\* the process ends and is started again: React state is rebuilt, the store stays
Restart ==
    /\ runs < MaxRuns
    /\ runs' = runs + 1
    /\ db' = FALSE /\ dbError' = "" /\ conversations' = <<>>
    /\ isDbLoading' = TRUE /\ location' = Home
    /\ init' = [i \in DOMAIN init |->
                  NewInit(Snapshot(schema, convRows, msgRows, settings), bootOK)]
    /\ creates' = Idle /\ deletes' = Idle
    /\ FreshChat /\ submits' = <<>> /\ settingsPage' = SettingsOff
    /\ event' = NoEvent
    /\ UNCHANGED <<storeVars, bootOK, clicks, saved>>

(* ----------------------------- navigation ----------------------------- *)
RemoveAt(s, i) == [j \in 1..(Len(s) - 1) |-> IF j < i THEN s[j] ELSE s[j + 1]]

\* loadHistoryFromDb up to its await: setError(""), setIsLoading(true) and the
\* select, which yields rows or throws
ReloadResults(cid) ==
    {<<"error">>} \cup
    (IF MessagesQueryable(schema)
     THEN {<<"ok", h>> : h \in SelectMessages(msgRows, cid)} ELSE {})

\* fetchContext up to its await: the select of the prompt yields the values
\* of the rows with the key, or throws
FetchResults ==
    {<<"error">>} \cup
    (IF schema.settings THEN {<<"ok", SelectSetting(settings, SystemPromptKey)>>} ELSE {})

\* a SettingsPage as useState creates it, its effect awaiting the select
Mounted(f) ==
    [mounted |-> TRUE, context |-> "", isLoading |-> TRUE, error |-> "", result |-> f]

\* the route changes to `to`: ChatPage is mounted, kept (its conversationId
\* changes and the effect reloads) or unmounted; SettingsPage is mounted on
\* its route when the handle is present
Navigate(to) ==
    /\ location' = to
    /\ IF to = location
       THEN UNCHANGED chatVars
       ELSE /\ IF to = SettingsRoute /\ db
               THEN \E f \in FetchResults : settingsPage' = Mounted(f)
               ELSE settingsPage' = SettingsOff
            /\ IF to.page = "chat" /\ db
               THEN \E r \in ReloadResults(to.id) :
                      IF location.page = "chat"
                      THEN /\ reloads' = Append(reloads, [cid |-> to.id, result |-> r])
                           /\ error' = {}
                           /\ isLoading' = TRUE
                           /\ submits' = [i \in DOMAIN submits |->
                                            [submits[i] EXCEPT !.switched = TRUE]]
                           /\ UNCHANGED <<conversation, selectedModel>>
                      ELSE /\ reloads' = <<[cid |-> to.id, result |-> r]>>
                           /\ error' = {}
                           /\ isLoading' = TRUE
                           /\ conversation' = <<>>
                           /\ selectedModel' = ""
                           /\ UNCHANGED submits
               ELSE /\ FreshChat
                    /\ submits' = [i \in DOMAIN submits |->
                                     [submits[i] EXCEPT !.live = FALSE, !.switched = TRUE]]

\* a click on a sidebar link
GoHome ==
    /\ Click
    /\ Rendered /\ location # Home
    /\ Navigate(Home)
    /\ event' = NoEvent
    /\ UNCHANGED <<storeVars, db, dbError, conversations, isDbLoading, init,
                   creates, deletes, runs, saved, bootOK>>

GoSettings ==
    /\ Click
    /\ Rendered /\ location # SettingsRoute
    /\ Navigate(SettingsRoute)
    /\ event' = NoEvent
    /\ UNCHANGED <<storeVars, db, dbError, conversations, isDbLoading, init,
                   creates, deletes, runs, saved, bootOK>>

GoChat ==
    /\ Click
    /\ Rendered /\ Len(reloads) < MaxReloads
    /\ \E c \in Range(conversations) :
         /\ location # ChatRoute(c.id)
         /\ Navigate(ChatRoute(c.id))
    /\ event' = NoEvent
    /\ UNCHANGED <<storeVars, db, dbError, conversations, isDbLoading, init,
                   creates, deletes, runs, saved, bootOK>>

(* ---------------------------- handleNewChat --------------------------- *)
\* loadConversations up to its await: the select yields rows or throws
ListResults ==
    {<<"error">>} \cup
    (IF schema.conversations
     THEN {<<"ok", r>> : r \in SelectConversations(convRows)} ELSE {})

\* loadConversations after its await: setConversations or setDbError
ApplyList(result) ==
    IF result[1] = "ok"
    THEN conversations' = result[2] /\ dbError' = dbError
    ELSE conversations' = conversations /\ dbError' = "load"

\* the click: INSERT INTO conversations
NewChatInsert ==
    /\ Click
    /\ Rendered /\ db /\ creates = Idle /\ convSeq < MaxConvs
    /\ \/ \E t \in Now({r.created_at : r \in convRows}) :
            /\ schema.conversations
            /\ convRows' = InsertConversation(convRows, convSeq, t)
            /\ convSeq' = convSeq + 1
            /\ creates' = [pc |-> "inserted", ok |-> TRUE, result |-> <<>>,
                           new |-> convSeq + 1, log |-> Attempt(<<>>, "insert")]
       \/ /\ creates' = [pc |-> "inserted", ok |-> FALSE, result |-> <<>>, new |-> 0,
                         log |-> Attempt(<<>>, "insert")]
          /\ UNCHANGED <<convRows, convSeq>>
    /\ event' = NoEvent
    /\ UNCHANGED <<schema, msgRows, msgSeq, settings, db, dbError, conversations,
                   isDbLoading, location, init, deletes, chatVars, runs, saved, bootOK>>

\* after the insert: the catch, or loadConversations(db)
NewChatList ==
    /\ creates.pc = "inserted"
    /\ IF creates.ok
       THEN /\ \E r \in ListResults :
                 creates' = [creates EXCEPT !.pc = "listed", !.result = r,
                                            !.log = Attempt(@, "list")]
            /\ event' = NoEvent
            /\ UNCHANGED dbError
       ELSE /\ creates' = Idle
            /\ dbError' = "create"
            /\ event' = [op |-> "create", outcome |-> "error", task |-> creates]
    /\ UNCHANGED <<storeVars, db, conversations, isDbLoading, location, init,
                   deletes, chatVars, runs, saved, bootOK, clicks>>

\* after loadConversations: SELECT id ... ORDER BY id DESC LIMIT 1
\* (loadConversations has returned: the event keeps the list it found)
NewChatLatest ==
    /\ creates.pc = "listed"
    /\ ApplyList(creates.result)
    /\ \/ /\ schema.conversations
          /\ creates' = [creates EXCEPT !.pc = "latest", !.ok = TRUE,
                                        !.result = SelectLatestId(convRows),
                                        !.log = Attempt(@, "latest")]
       \/ creates' = [creates EXCEPT !.pc = "latest", !.ok = FALSE,
                                     !.log = Attempt(@, "latest")]
    /\ event' = [op |-> "list", outcome |-> creates.result[1], before |-> conversations]
    /\ UNCHANGED <<storeVars, db, isDbLoading, location, init, deletes, chatVars,
                   runs, saved, bootOK, clicks>>

\* after the id query: navigate to the chat, reload the list again, or the catch
NewChatNavigate ==
    /\ creates.pc = "latest"
    /\ \/ /\ creates.ok /\ creates.result # <<>>
          /\ Len(reloads) < MaxReloads
          /\ Navigate(ChatRoute(creates.result[1]))
          /\ creates' = Idle
          /\ event' = [op |-> "create", outcome |-> "ok", task |-> creates]
          /\ UNCHANGED dbError
       \/ /\ creates.ok /\ creates.result = <<>>
          /\ \E r \in ListResults :
               creates' = [creates EXCEPT !.pc = "relisted", !.result = r,
                                          !.log = Attempt(@, "list")]
          /\ event' = NoEvent
          /\ UNCHANGED <<dbError, location, chatVars>>
       \/ /\ ~creates.ok
          /\ creates' = Idle
          /\ dbError' = "create"
          /\ event' = [op |-> "create", outcome |-> "error", task |-> creates]
          /\ UNCHANGED <<location, chatVars>>
    /\ UNCHANGED <<storeVars, db, conversations, isDbLoading, init, deletes,
                   runs, saved, bootOK, clicks>>

NewChatRelisted ==
    /\ creates.pc = "relisted"
    /\ ApplyList(creates.result)
    /\ creates' = Idle
    /\ event' = [op |-> "create", outcome |-> "none", task |-> creates]
    /\ UNCHANGED <<storeVars, db, isDbLoading, location, init, deletes, chatVars,
                   runs, saved, bootOK, clicks>>

(* ---------------------- handleDeleteConversation ---------------------- *)
\* the click on a conversation's delete button: DELETE FROM chat_messages
\* (had, row: the messages and the row of the conversation at the click,
\* history only)
DeleteMessagesStep ==
    /\ Click
    /\ Rendered /\ db /\ deletes = Idle
    /\ \E c \in Range(conversations) :
         \/ /\ MessagesQueryable(schema)
            /\ msgRows' = DeleteMessages(msgRows, c.id)
            /\ deletes' = [pc |-> "messages", id |-> c.id, ok |-> TRUE,
                           location |-> location,
                           had |-> {r \in msgRows : r.conversation_id = c.id},
                           row |-> {r \in convRows : r.id = c.id},
                           log |-> Attempt(<<>>, "messages")]
         \/ /\ msgRows' = msgRows
            /\ deletes' = [pc |-> "messages", id |-> c.id, ok |-> FALSE,
                           location |-> location,
                           had |-> {r \in msgRows : r.conversation_id = c.id},
                           row |-> {r \in convRows : r.id = c.id},
                           log |-> Attempt(<<>>, "messages")]
    /\ event' = NoEvent
    /\ UNCHANGED <<schema, convRows, convSeq, msgSeq, settings, db, dbError,
                   conversations, isDbLoading, location, init, creates, chatVars,
                   runs, saved, bootOK>>

\* after the first delete: the catch, or DELETE FROM conversations
DeleteRowStep ==
    /\ deletes.pc = "messages"
    /\ IF deletes.ok
       THEN /\ \/ /\ schema.conversations
                  /\ convRows' = DeleteConversationRow(convRows, deletes.id)
                  /\ deletes' = [deletes EXCEPT !.pc = "row", !.log = Attempt(@, "row")]
               \/ /\ convRows' = convRows
                  /\ deletes' = [deletes EXCEPT !.pc = "row", !.ok = FALSE,
                                                !.log = Attempt(@, "row")]
            /\ event' = NoEvent
            /\ UNCHANGED dbError
       ELSE /\ deletes' = Idle
            /\ dbError' = "delete"
            /\ event' = [op |-> "delete", outcome |-> "error", task |-> deletes]
            /\ UNCHANGED convRows
    /\ UNCHANGED <<schema, convSeq, msgRows, msgSeq, settings, db,
                   conversations, isDbLoading, location, init, creates, chatVars,
                   runs, saved, bootOK, clicks>>

\* setConversations(prev => prev.filter(c => c.id !== conversationId))
FilterOut(list, id) == SelectSeq(list, LAMBDA c : c.id # id)

\* after the second delete: the list is filtered and, when the handler's
\* location is the deleted chat, the route goes home; or the catch
DeleteFinish ==
    /\ deletes.pc = "row"
    /\ IF deletes.ok
       THEN /\ conversations' = FilterOut(conversations, deletes.id)
            /\ IF deletes.location = ChatRoute(deletes.id)
               THEN Navigate(Home)
               ELSE UNCHANGED <<location, chatVars>>
            /\ event' = [op |-> "delete", outcome |-> "ok", task |-> deletes]
            /\ UNCHANGED dbError
       ELSE /\ dbError' = "delete"
            /\ event' = [op |-> "delete", outcome |-> "error", task |-> deletes]
            /\ UNCHANGED <<conversations, location, chatVars>>
    /\ deletes' = Idle
    /\ UNCHANGED <<storeVars, db, isDbLoading, init, creates, runs, saved, bootOK, clicks>>

(* ------------------------------ SettingsPage -------------------------- *)
\* a fetch that shows an empty prompt when the key has no row
FetchedOrEmpty(result) ==
    IF result = {} THEN "" ELSE CHOOSE v \in result : TRUE

\* result.length > 0 ? result[0].value : "You are a helpful assistant."
FetchedContext(result) ==
    IF result = {} THEN DefaultPrompt ELSE CHOOSE v \in result : TRUE

\* fetchContext after its await: setContext, or setError in the catch;
\* finally setIsLoading(false)
FetchResolved ==
    /\ settingsPage.mounted /\ settingsPage.isLoading
    /\ IF settingsPage.result[1] = "ok"
       THEN /\ settingsPage' = [settingsPage EXCEPT !.isLoading = FALSE, !.result = <<>>,
                                   !.context = FetchedContext(settingsPage.result[2])]
            /\ event' = [op |-> "get", outcome |-> "ok", rows |-> settingsPage.result[2],
                         value |-> FetchedContext(settingsPage.result[2])]
       ELSE /\ settingsPage' = [settingsPage EXCEPT !.isLoading = FALSE, !.result = <<>>,
                                   !.error = "load"]
            /\ event' = [op |-> "get", outcome |-> "error"]
    /\ UNCHANGED <<storeVars, appVars, conversation, isLoading, error, selectedModel,
                   reloads, submits, runs, bootOK, clicks, saved>>

\* handleSave, with the text v the user has put in the textarea: setError(""),
\* INSERT OR REPLACE INTO settings, setError in the catch
SaveContext ==
    /\ Click
    /\ Rendered /\ db /\ location = SettingsRoute
    /\ settingsPage.mounted /\ ~settingsPage.isLoading
    /\ \E v \in ContextInputs :
         \/ /\ schema.settings
            /\ settings' = InsertOrReplace(settings, SystemPromptKey, v)
            /\ saved' = Append(saved, v)
            /\ settingsPage' = [settingsPage EXCEPT !.context = v, !.error = ""]
            /\ event' = [op |-> "save", outcome |-> "ok", value |-> v]
         \/ /\ settings' = settings /\ saved' = saved
            /\ settingsPage' = [settingsPage EXCEPT !.context = v, !.error = "save"]
            /\ event' = [op |-> "save", outcome |-> "error"]
    /\ UNCHANGED <<schema, convRows, convSeq, msgRows, msgSeq, appVars,
                   conversation, isLoading, error, selectedModel, reloads, submits,
                   runs, bootOK>>

(* ------------------------ ChatPage: models ---------------------------- *)
\* getListModels, on mount and on the refresh button: setError(""), then the
\* registry answers with models (the first is selected when none is), with
\* none, or the call fails
GetListModels ==
    /\ Rendered /\ location.page = "chat" /\ db
    /\ \/ selectedModel' = "model" /\ error' = {}
       \/ selectedModel' = "" /\ error' = {}
       \/ selectedModel' = "" /\ error' = {"models"}
    /\ event' = NoEvent
    /\ UNCHANGED <<storeVars, appVars, conversation, isLoading, reloads, submits,
                   runs, settingsPage, saved, bootOK, clicks>>

(* -------------------- ChatPage: loadHistoryFromDb --------------------- *)
\* a catch that leaves the mirror as it is
ReloadFailedKeeps(prev) == prev

\* the catch: setConversation([])
ReloadFailed(prev) == <<>>

\* after the select: setConversation(loadedMessages), or setError and
\* setConversation([]); finally setIsLoading(false)
\* (the event keeps the mirror the handler found when it resumed)
ReloadResolved ==
    \E i \in DOMAIN reloads :
        /\ IF reloads[i].result[1] = "ok"
           THEN conversation' = reloads[i].result[2] /\ error' = error
           ELSE conversation' = ReloadFailed(conversation) /\ error' = {"history"}
        /\ isLoading' = FALSE
        /\ reloads' = RemoveAt(reloads, i)
        /\ event' = [op |-> "reload", outcome |-> reloads[i].result[1],
                     task |-> reloads[i], pending |-> Len(reloads) - 1,
                     mirror |-> conversation]
        /\ UNCHANGED <<storeVars, appVars, selectedModel, submits,
                       runs, settingsPage, saved, bootOK, clicks>>

(* ------------------------ ChatPage: handleSubmit ---------------------- *)
Msg(role, content) == [role |-> role, content |-> content]

\* a context that puts the pending message before the history
BuildContextPendingFirst(globalContext, historyMessages, userMessage) ==
    (IF globalContext # "" THEN <<Msg("system", globalContext)>> ELSE <<>>)
        \o <<userMessage>> \o historyMessages

\* messages_for_llm: the system entry when globalContext is not empty, the
\* history rows, the new user message
BuildContext(globalContext, historyMessages, userMessage) ==
    (IF globalContext # "" THEN <<Msg("system", globalContext)>> ELSE <<>>)
        \o historyMessages \o <<userMessage>>

\* setConversation(prev => prev.slice(0, -1))
DropLast(s) == IF s = <<>> THEN <<>> ELSE SubSeq(s, 1, Len(s) - 1)

\* a reply put in front of the entries the mirror holds
PrependReply(prev, assistantMessage) == <<assistantMessage>> \o prev

\* setConversation(prev => [...prev, assistantMessage])
AppendReply(prev, assistantMessage) == Append(prev, assistantMessage)

\* setError(prev => prev ? prev + "DB Save Error" : "DB Save Error")
SaveError(prev) == prev \cup {"save"}

\* a handler's setState calls reach the component only while it is mounted
SetChat(t, cnv, ld, err) ==
    IF t.live
    THEN conversation' = cnv /\ isLoading' = ld /\ error' = err
    ELSE UNCHANGED <<conversation, isLoading, error>>

\* a submit that leaves the mirror alone until the handler has an answer
OptimisticLate(prev, userMessage) == prev

\* the value Number() gives for a text that is not a number
NaN == -1

\* Number(conversationId) for the segments of RouteParams
Number(param) ==
    CASE param = "0" -> 0
      [] param = "1" -> 1
      [] OTHER -> NaN

\* the characters String.prototype.trim removes (those a user can type)
WhiteSpace == {" ", "\t", "\n"}

RECURSIVE TrimStart(_)
TrimStart(s) ==
    IF s # "" /\ Head(s) \in WhiteSpace THEN TrimStart(Tail(s)) ELSE s

RECURSIVE TrimEnd(_)
TrimEnd(s) ==
    IF s # "" /\ SubSeq(s, Len(s), Len(s)) \in WhiteSpace
    THEN TrimEnd(SubSeq(s, 1, Len(s) - 1)) ELSE s

\* the text as typed
Untrimmed(s) == s

\* prompt.trim()
Trim(s) == TrimEnd(TrimStart(s))

\* the guard of handleSubmit, negated: currentPrompt, selectedModel, db and
\* currentConversationId are truthy and isLoading is not set
Accepted(typed) ==
    /\ Trim(typed) # "" /\ selectedModel # "" /\ ~isLoading /\ db
    /\ location.id \notin {0, NaN}

\* setConversation(prev => [...prev, userMessage]), before the first await
Optimistic(prev, userMessage) == Append(prev, userMessage)

\* the submit: the guard, the optimistic append, and the history select
\* pre, stored and wrote record what the handler found and did: the mirror
\* and the rows at the click, the ids of the rows it inserted
Submit(prompts) ==
    /\ Click
    /\ Rendered /\ location.page = "chat" /\ db
    /\ Len(submits) < MaxSubmits /\ Len(conversation) < MaxMirror
    /\ \E typed \in prompts, r \in ReloadResults(location.id) :
         /\ Accepted(typed)
         /\ conversation' = Optimistic(conversation, Msg("user", Trim(typed)))
         /\ submits' = Append(submits,
               [pc |-> "history", cid |-> location.id, typed |-> typed,
                userMessage |-> Msg("user", Trim(typed)),
                live |-> TRUE, switched |-> FALSE, result |-> r,
                historyMessages |-> <<>>, contextResult |-> <<>>,
                assistantMessage |-> Msg("assistant", ""),
                pre |-> conversation, stored |-> msgRows, wrote |-> {},
                log |-> Attempt(<<>>, "history")])
    /\ isLoading' = TRUE
    /\ error' = {}
    /\ event' = NoEvent
    /\ UNCHANGED <<storeVars, appVars, selectedModel, reloads, runs, settingsPage, saved, bootOK>>

SubmitClick == Submit(PromptInputs)

SubmitTyped == Submit(TypedInputs)

\* the submit of the form when the guard returns: nothing is set
SubmitRejected ==
    /\ Click
    /\ Rendered /\ location.page = "chat" /\ db
    /\ \E typed \in TypedInputs :
         /\ ~Accepted(typed)
         /\ event' = [op |-> "rejected", typed |-> typed]
    /\ UNCHANGED <<storeVars, appVars, chatVars, runs, saved, bootOK>>

\* an outer catch with no finally: the loading flag is left as it is
SubmitCatchKeepsLoading(i, outcome) ==
    /\ SetChat(submits[i], DropLast(conversation), isLoading, {"response"})
    /\ submits' = RemoveAt(submits, i)
    /\ event' = [op |-> "submit", outcome |-> outcome, task |-> submits[i],
                 mirror |-> conversation]

\* the outer catch and finally: setError, the rollback, setIsLoading(false)
\* (the event keeps the mirror the handler found when it resumed)
SubmitCatch(i, outcome) ==
    /\ SetChat(submits[i], DropLast(conversation), FALSE, {"response"})
    /\ submits' = RemoveAt(submits, i)
    /\ event' = [op |-> "submit", outcome |-> outcome, task |-> submits[i],
                 mirror |-> conversation]

\* after the history select: the settings select
SubmitContext ==
    \E i \in DOMAIN submits :
        /\ submits[i].pc = "history"
        /\ IF submits[i].result[1] = "ok"
           THEN /\ \/ /\ schema.settings
                      /\ submits' = [submits EXCEPT ![i].pc = "context",
                            ![i].historyMessages = submits[i].result[2],
                            ![i].result = <<>>,
                            ![i].contextResult =
                                <<"ok", SelectSetting(settings, SystemPromptKey)>>,
                            ![i].log = Attempt(@, "settings")]
                   \/ submits' = [submits EXCEPT ![i].pc = "context",
                            ![i].historyMessages = submits[i].result[2],
                            ![i].result = <<>>,
                            ![i].contextResult = <<"error">>,
                            ![i].log = Attempt(@, "settings")]
                /\ event' = NoEvent
                /\ UNCHANGED <<conversation, isLoading, error>>
           ELSE SubmitCatch(i, "readError")
        /\ UNCHANGED <<storeVars, appVars, selectedModel, reloads,
                       runs, settingsPage, saved, bootOK, clicks>>

\* after the settings select: the context is built and ask_llm is invoked
SubmitInvoke ==
    \E i \in DOMAIN submits :
        /\ submits[i].pc = "context"
        /\ IF submits[i].contextResult[1] = "ok"
           THEN /\ submits' = [submits EXCEPT ![i].pc = "infer",
                      ![i].contextResult = <<>>, ![i].historyMessages = <<>>,
                      ![i].stored = {}, ![i].log = Attempt(@, "ask_llm")]
                /\ event' = [op |-> "invoke", task |-> submits[i],
                      messages |-> BuildContext(ResolvePrompt(submits[i].contextResult[2]),
                                       submits[i].historyMessages,
                                       submits[i].userMessage)]
                /\ UNCHANGED <<conversation, isLoading, error>>
           ELSE SubmitCatch(i, "readError")
        /\ UNCHANGED <<storeVars, appVars, selectedModel, reloads,
                       runs, settingsPage, saved, bootOK, clicks>>

\* the id of the route as it is when the statement is issued
CurrentConversationIdNow(t, loc) == loc.id

\* currentConversationId = Number(conversationId): a constant of the render
\* in which the handler was called, which the handler keeps across its awaits
CurrentConversationId(t, loc) == t.cid

\* INSERT INTO chat_messages of one message of the turn
PersistResults(m) ==
    {<<"error">>} \cup
    (IF InsertAccepted(schema, m.role) /\ msgSeq < MaxMsgs
     THEN {<<"ok", c>> : c \in Now({x.timestamp : x \in msgRows})} ELSE {})

\* a write that inserts its row even when it reports a failure
PersistAnyway(i, m, r, next, reply) ==
    /\ msgRows' = InsertMessage(msgRows, msgSeq, CurrentConversationId(submits[i], location),
                              m.role, m.content, 0)
    /\ msgSeq' = msgSeq + 1
    /\ submits' = [submits EXCEPT ![i].pc = next, ![i].result = <<r[1]>>,
                                  ![i].assistantMessage = reply,
                                  ![i].wrote = @ \cup {msgSeq + 1},
                                  ![i].log = Attempt(@, m.role)]

Persist(i, m, r, next, reply) ==
    IF r[1] = "ok"
    THEN /\ msgRows' = InsertMessage(msgRows, msgSeq,
                                  CurrentConversationId(submits[i], location),
                                  m.role, m.content, r[2])
         /\ msgSeq' = msgSeq + 1
         /\ submits' = [submits EXCEPT ![i].pc = next, ![i].result = <<"ok">>,
                                       ![i].assistantMessage = reply,
                                       ![i].wrote = @ \cup {msgSeq + 1},
                                       ![i].log = Attempt(@, m.role)]
    ELSE /\ UNCHANGED <<msgRows, msgSeq>>
         /\ submits' = [submits EXCEPT ![i].pc = next, ![i].result = r,
                                       ![i].assistantMessage = reply,
                                       ![i].log = Attempt(@, m.role)]

\* after ask_llm: the catch, or the insert of the user message
SubmitInferred ==
    \E i \in DOMAIN submits :
        /\ submits[i].pc = "infer"
        /\ \/ /\ SubmitCatch(i, "inferenceError")
              /\ UNCHANGED <<msgRows, msgSeq>>
           \/ \E a \in ReplyInputs, r \in PersistResults(submits[i].userMessage) :
                /\ Persist(i, submits[i].userMessage, r, "savedUser",
                           Msg("assistant", a))
                /\ event' = NoEvent
                /\ UNCHANGED <<conversation, isLoading, error>>
        /\ UNCHANGED <<schema, convRows, convSeq, settings, appVars, selectedModel,
                       reloads, runs, settingsPage, saved, bootOK, clicks>>

\* the end of the handler: the inner catch when a write failed, the reply is
\* appended to the mirror, finally setIsLoading(false)
SubmitReturn(i, failed) ==
    /\ SetChat(submits[i], AppendReply(conversation, submits[i].assistantMessage), FALSE,
               IF failed THEN SaveError(error) ELSE error)
    /\ event' = [op |-> "submit", outcome |-> IF failed THEN "saveError" ELSE "ok",
                 task |-> submits[i], mirror |-> conversation]

\* after the first insert: the second insert, or the inner catch
SubmitSaveAssistant ==
    \E i \in DOMAIN submits :
        /\ submits[i].pc = "savedUser"
        /\ IF submits[i].result[1] = "ok"
           THEN /\ \E r \in PersistResults(submits[i].assistantMessage) :
                     Persist(i, submits[i].assistantMessage, r, "savedAssistant",
                             submits[i].assistantMessage)
                /\ event' = NoEvent
                /\ UNCHANGED <<conversation, isLoading, error>>
           ELSE /\ SubmitReturn(i, TRUE)
                /\ submits' = RemoveAt(submits, i)
                /\ UNCHANGED <<msgRows, msgSeq>>
        /\ UNCHANGED <<schema, convRows, convSeq, settings, appVars, selectedModel,
                       reloads, runs, settingsPage, saved, bootOK, clicks>>

\* after the second insert
SubmitFinish ==
    \E i \in DOMAIN submits :
        /\ submits[i].pc = "savedAssistant"
        /\ SubmitReturn(i, submits[i].result[1] # "ok")
        /\ submits' = RemoveAt(submits, i)
        /\ UNCHANGED <<storeVars, appVars, selectedModel, reloads,
                       runs, settingsPage, saved, bootOK, clicks>>

(* --------------------------- specification ---------------------------- *)
\* the schema every successful bootstrap leaves
FullSchema ==
    CreateIndex(AddConversationIdColumn(CreateMessagesTable(
        CreateSettingsTable(CreateConversationsTable(NoSchema)))))

\* the schema initializeDatabase leaves on the store of the earlier version
MigratedSchema ==
    CreateIndex(AddConversationIdColumn(CreateMessagesTable(
        CreateSettingsTable(CreateConversationsTable(LegacySchema)))))

\* n conversations created one second after the other
StoredConvs(n) == {[id |-> i, name |-> ConvName, created_at |-> i - 1] : i \in 1..n}

\* one turn, as the earlier version stored it and as this one does
LegacyTurn ==
    {[id |-> 1, conversation_id |-> NULL, role |-> "user", content |-> "Hi", timestamp |-> 0],
     [id |-> 2, conversation_id |-> NULL, role |-> "assistant", content |-> "Hello",
      timestamp |-> 0]}

StoredTurn ==
    {[id |-> 1, conversation_id |-> 1, role |-> "user", content |-> "Hi", timestamp |-> 0],
     [id |-> 2, conversation_id |-> 1, role |-> "assistant", content |-> "Hello",
      timestamp |-> 0]}

\* the stores a process start may find: no file yet; the file of the earlier
\* version (chat_messages only, no conversation_id, two roles), empty or
\* holding one turn; the file an earlier run of this version left
PriorStores ==
    {Snapshot(NoSchema, {}, {}, {}),
     Snapshot(LegacySchema, {}, {}, {}),
     Snapshot(LegacySchema, {}, LegacyTurn, {}),
     Snapshot(FullSchema, StoredConvs(1), StoredTurn,
              InsertOrIgnore({}, SystemPromptKey, DefaultPrompt))}

\* the process starts: App mounts and its mount effect calls
\* initializeDatabase, once, or twice when React.StrictMode runs the effect a
\* second time (a development build)
MountOn(stores, calls) ==
    /\ \E s \in stores :
         /\ schema = s.schema
         /\ convRows = s.convRows /\ convSeq = Cardinality(s.convRows)
         /\ msgRows = s.msgRows /\ msgSeq = Cardinality(s.msgRows)
         /\ settings = s.settings
         /\ bootOK = (s.schema \in {FullSchema, MigratedSchema})
         /\ init = [i \in 1..calls |-> NewInit(s, bootOK)]
    /\ db = FALSE /\ dbError = "" /\ conversations = <<>>
    /\ isDbLoading = TRUE /\ location = Home
    /\ creates = Idle /\ deletes = Idle
    /\ conversation = <<>> /\ isLoading = FALSE /\ error = {}
    /\ selectedModel = ""
    /\ reloads = <<>> /\ submits = <<>> /\ settingsPage = SettingsOff
    /\ runs = 1 /\ clicks = 0 /\ saved = <<>> /\ event = NoEvent

Mount(calls) == MountOn(PriorStores, calls)

Init == Mount(1)

Next ==
    \/ InitLoad \/ InitCreateConversations \/ InitCreateSettings
    \/ InitCreateMessages \/ InitAlter \/ InitIndex \/ InitSeed
    \/ InitSelectConversations \/ InitFinish \/ InitCatch
    \/ Restart
    \/ GoHome \/ GoSettings \/ GoChat
    \/ NewChatInsert \/ NewChatList \/ NewChatLatest \/ NewChatNavigate
    \/ NewChatRelisted
    \/ DeleteMessagesStep \/ DeleteRowStep \/ DeleteFinish
    \/ FetchResolved \/ SaveContext
    \/ GetListModels \/ ReloadResolved
    \/ SubmitClick \/ SubmitContext \/ SubmitInvoke \/ SubmitInferred
    \/ SubmitSaveAssistant \/ SubmitFinish

Spec == Init /\ [][Next]_vars

\* the bootstrap, alone: process starts and the settings page
NextBoot ==
    \/ InitLoad \/ InitCreateConversations \/ InitCreateSettings
    \/ InitCreateMessages \/ InitAlter \/ InitIndex \/ InitSeed
    \/ InitSelectConversations \/ InitFinish \/ InitCatch
    \/ Restart
    \/ GoHome \/ GoSettings \/ FetchResolved \/ SaveContext

SpecBoot == Init /\ [][NextBoot]_vars

\* a started process on a store with the full schema, n conversations and
\* the settings rows k, the list loaded
StartedWith(s, m, n, k) ==
    /\ schema = s
    /\ convRows = StoredConvs(n) /\ convSeq = n
    /\ msgRows = m /\ msgSeq = Cardinality(m)
    /\ settings = k
    /\ db = TRUE /\ dbError = ""
    /\ conversations \in SelectConversations(StoredConvs(n))
    /\ isDbLoading = FALSE
    /\ init = <<[NewInit(Snapshot(schema, convRows, msgRows, settings), TRUE)
                   EXCEPT !.pc = "done"]>>
    /\ creates = Idle /\ deletes = Idle
    /\ conversation = <<>> /\ isLoading = FALSE /\ error = {}
    /\ reloads = <<>> /\ submits = <<>>
    /\ runs = 1 /\ bootOK = TRUE /\ clicks = 0 /\ saved = <<>> /\ event = NoEvent

StartedOn(n, k) == StartedWith(FullSchema, {}, n, k)

\* a started process on the store an earlier run left: bootstrapped, the
\* prompt stored, n conversations created
Started(n, prompt) == StartedOn(n, InsertOrIgnore({}, SystemPromptKey, prompt))

\* the chat page of conversation id is shown, its (empty) history loaded
\* and a model selected
Opened(id) ==
    location = ChatRoute(id) /\ selectedModel = "model" /\ settingsPage = SettingsOff

\* the settings page has just been opened: fetchContext awaits its select
OpenedSettings ==
    /\ location = SettingsRoute /\ selectedModel = ""
    /\ settingsPage \in {Mounted(f) : f \in FetchResults}

\* one conversation, its chat page and the settings page
InitChat == \E v \in {DefaultPrompt} \cup ContextInputs : Started(1, v) /\ Opened(1)

NextChat ==
    \/ GoHome \/ GoSettings \/ GoChat
    \/ FetchResolved \/ SaveContext
    \/ GetListModels \/ ReloadResolved
    \/ SubmitClick \/ SubmitContext \/ SubmitInvoke \/ SubmitInferred
    \/ SubmitSaveAssistant \/ SubmitFinish

SpecChat == InitChat /\ [][NextChat]_vars

\* two conversations and the user going from one to the other
InitSwitch ==
    Started(2, DefaultPrompt) /\ Opened(1)

SubmitHi == Submit({"Hi"})

NextSwitch ==
    \/ GoChat \/ ReloadResolved
    \/ DeleteMessagesStep \/ DeleteRowStep \/ DeleteFinish
    \/ SubmitHi \/ SubmitContext \/ SubmitInvoke \/ SubmitInferred
    \/ SubmitSaveAssistant \/ SubmitFinish

SpecSwitch == InitSwitch /\ [][NextSwitch]_vars

\* the settings table as a page may find it: the row of the prompt with one
\* of the values, or no row for the key ("If somehow it wasn't set by init",
\* Settings.tsx)
SettingsTables ==
    {{}} \cup {InsertOrIgnore({}, SystemPromptKey, v) : v \in {DefaultPrompt} \cup ContextInputs}

\* the prompt: read by the settings page and by a submit, saved, and kept
\* over a process restart
InitSettings == \E k \in SettingsTables : StartedOn(1, k) /\ OpenedSettings

NextSettings ==
    \/ InitLoad \/ InitCreateConversations \/ InitCreateSettings
    \/ InitCreateMessages \/ InitAlter \/ InitIndex \/ InitSeed
    \/ InitSelectConversations \/ InitFinish \/ InitCatch
    \/ Restart
    \/ GoHome \/ GoSettings \/ GoChat
    \/ FetchResolved \/ SaveContext
    \/ GetListModels \/ ReloadResolved
    \/ SubmitHi \/ SubmitContext \/ SubmitInvoke \/ SubmitInferred
    \/ SubmitSaveAssistant \/ SubmitFinish

SpecSettings == InitSettings /\ [][NextSettings]_vars

\* the sidebar: one conversation holding a turn, conversations are created,
\* opened and deleted
InitList ==
    /\ schema = FullSchema
    /\ convRows = StoredConvs(1) /\ convSeq = 1
    /\ msgRows = StoredTurn /\ msgSeq = 2
    /\ settings = InsertOrIgnore({}, SystemPromptKey, DefaultPrompt)
    /\ db = TRUE /\ dbError = ""
    /\ conversations \in SelectConversations(convRows)
    /\ isDbLoading = FALSE /\ location = Home
    /\ init = <<[NewInit(Snapshot(schema, convRows, msgRows, settings), TRUE)
                   EXCEPT !.pc = "done"]>>
    /\ creates = Idle /\ deletes = Idle
    /\ conversation = <<>> /\ isLoading = FALSE /\ error = {}
    /\ selectedModel = ""
    /\ reloads = <<>> /\ submits = <<>> /\ settingsPage = SettingsOff
    /\ runs = 1 /\ bootOK = TRUE /\ clicks = 0 /\ saved = <<>> /\ event = NoEvent

NextList ==
    \/ GoHome \/ GoChat \/ ReloadResolved
    \/ NewChatInsert \/ NewChatList \/ NewChatLatest \/ NewChatNavigate
    \/ DeleteMessagesStep \/ DeleteRowStep \/ DeleteFinish

SpecList == InitList /\ [][NextList]_vars

\* process starts that may fail, and every operation of the pages up to its
\* first await: the clicks and effects that issue a store statement
NextDown ==
    \/ InitLoad \/ InitCreateConversations \/ InitCreateSettings
    \/ InitCreateMessages \/ InitAlter \/ InitIndex \/ InitSeed
    \/ InitSelectConversations \/ InitFinish \/ InitCatch
    \/ Restart
    \/ GoHome \/ GoSettings \/ GoChat
    \/ NewChatInsert \/ DeleteMessagesStep
    \/ FetchResolved \/ SaveContext
    \/ GetListModels \/ ReloadResolved
    \/ SubmitHi

SpecDown == Init /\ [][NextDown]_vars

\* one writer: creations only, with the navigation and reloads they lead to
NextCreate ==
    \/ GoHome \/ GoChat \/ ReloadResolved
    \/ NewChatInsert \/ NewChatList \/ NewChatLatest \/ NewChatNavigate

SpecCreate == InitList /\ [][NextCreate]_vars

\* creations and deletions of conversations, and the reloads of the chat a
\* creation opens
NextIds ==
    \/ GoHome \/ ReloadResolved
    \/ NewChatInsert \/ NewChatList \/ NewChatLatest \/ NewChatNavigate
    \/ DeleteMessagesStep \/ DeleteRowStep \/ DeleteFinish

SpecIds == InitList /\ [][NextIds]_vars

\* a started process with one conversation, its chat open, on a store this
\* version created or on a migrated store of the earlier version, which may
\* hold the turn the earlier version wrote
InitLegacy ==
    /\ \E st \in {<<FullSchema, {}>>, <<MigratedSchema, {}>>,
                   <<MigratedSchema, LegacyTurn>>} :
          StartedWith(st[1], st[2], 1, InsertOrIgnore({}, SystemPromptKey, DefaultPrompt))
    /\ Opened(1)

NextLegacy ==
    \/ GoHome \/ GoChat \/ ReloadResolved
    \/ DeleteMessagesStep \/ DeleteRowStep \/ DeleteFinish
    \/ SubmitHi \/ SubmitContext \/ SubmitInvoke \/ SubmitInferred
    \/ SubmitSaveAssistant \/ SubmitFinish

SpecLegacy == InitLegacy /\ [][NextLegacy]_vars

\* a process start on a store of the earlier version that holds its turn:
\* as that version left it, or migrated by an earlier run of this version
\* in which a conversation was created; then the chat, a submit and a delete
InitNull ==
    MountOn({Snapshot(LegacySchema, {}, LegacyTurn, {}),
             Snapshot(MigratedSchema, StoredConvs(1), LegacyTurn,
                      InsertOrIgnore({}, SystemPromptKey, DefaultPrompt))}, 1)

NextNull ==
    \/ InitLoad \/ InitCreateConversations \/ InitCreateSettings
    \/ InitCreateMessages \/ InitAlter \/ InitIndex \/ InitSeed
    \/ InitSelectConversations \/ InitFinish \/ InitCatch
    \/ GoHome \/ GoChat \/ GetListModels \/ ReloadResolved
    \/ DeleteMessagesStep \/ DeleteRowStep \/ DeleteFinish
    \/ SubmitHi \/ SubmitContext \/ SubmitInvoke \/ SubmitInferred
    \/ SubmitSaveAssistant \/ SubmitFinish

SpecNull == InitNull /\ [][NextNull]_vars

\* two conversations, the first holding a stored turn, the chat of the
\* second open: submits, switches of the active conversation and reloads
InitTurn ==
    /\ StartedWith(FullSchema, StoredTurn, 2,
                   InsertOrIgnore({}, SystemPromptKey, DefaultPrompt))
    /\ Opened(2)

NextTurn ==
    \/ GoChat \/ ReloadResolved
    \/ SubmitHi \/ SubmitContext \/ SubmitInvoke \/ SubmitInferred
    \/ SubmitSaveAssistant \/ SubmitFinish

SpecTurn == InitTurn /\ [][NextTurn]_vars

\* one conversation; the chat route was entered with one of the segments,
\* the page is mounted and its list of models not yet loaded
InitGuard ==
    /\ \E param \in RouteParams :
          /\ Started(1, DefaultPrompt)
          /\ location = ChatRoute(Number(param))
    /\ selectedModel = "" /\ settingsPage = SettingsOff

NextGuard ==
    \/ GoChat \/ GetListModels \/ ReloadResolved
    \/ SubmitTyped \/ SubmitRejected
    \/ SubmitContext \/ SubmitInvoke \/ SubmitInferred
    \/ SubmitSaveAssistant \/ SubmitFinish

SpecGuard == InitGuard /\ [][NextGuard]_vars

\* the same, with every store statement and every inference call that was
\* issued resolving, so that each handler that awaits one resumes
SpecResolve ==
    /\ SpecTurn
    /\ WF_vars(ReloadResolved)
    /\ WF_vars(SubmitContext) /\ WF_vars(SubmitInvoke) /\ WF_vars(SubmitInferred)
    /\ WF_vars(SubmitSaveAssistant) /\ WF_vars(SubmitFinish)

\* a development build: the mount effect runs twice, so two initializeDatabase
\* calls run interleaved; the first step of every operation
InitStrict == Mount(2)

NextStrict ==
    \/ InitLoad \/ InitCreateConversations \/ InitCreateSettings
    \/ InitCreateMessages \/ InitAlter \/ InitIndex \/ InitSeed
    \/ InitSelectConversations \/ InitFinish \/ InitCatch
    \/ GoHome \/ GoSettings \/ GoChat
    \/ NewChatInsert \/ DeleteMessagesStep
    \/ FetchResolved \/ SaveContext
    \/ GetListModels \/ ReloadResolved
    \/ SubmitHi

SpecStrict == InitStrict /\ [][NextStrict]_vars

(* ------------------------------ context ------------------------------- *)
\* C1: the context handed to the inference call is [system entry?, history,
\* pending user entry]: the history is a result of MessageStore.list on the
\* rows stored when the submit was made (not the mirror), it is preceded by
\* exactly one system entry with content p when the stored prompt p is not
\* empty and by none when p is "", and followed by exactly one user entry
\* with the pending content.
C1_ContextShape ==
    event.op = "invoke" =>
        LET t == event.task
            p == ResolvePrompt(t.contextResult[2])
            h == t.historyMessages
            m == event.messages
            k == IF p = "" THEN 0 ELSE 1
        IN  /\ h \in SelectMessages(t.stored, t.cid)
            /\ Len(m) = k + Len(h) + 1
            /\ k = 1 => m[1] = [role |-> "system", content |-> p]
            /\ \A i \in 1..Len(h) : m[k + i] = h[i] /\ h[i].role # "system"
            /\ m[Len(m)] = t.userMessage
            /\ t.userMessage.role = "user"

\* a context is assembled with a system entry from a store that holds rows
\* while the mirror shows something else
C1_Witness ==
    /\ event.op = "invoke"
    /\ event.task.historyMessages # <<>>
    /\ event.task.pre # event.task.historyMessages
    /\ ResolvePrompt(event.task.contextResult[2]) = "Be terse"
    /\ Len(event.messages) = Len(event.task.historyMessages) + 2

\* C2: with the prompt "Be terse" stored and the history holding the turn
\* (user "Hi", assistant "Hello") appended in that order, the context for the
\* pending message "How are you?" is the four entries system "Be terse",
\* user "Hi", assistant "Hello", user "How are you?", in that order.
C2_Scenario ==
    ( /\ event.op = "invoke"
      /\ event.task.contextResult[2] = {"Be terse"}
      /\ event.task.userMessage.content = "How are you?"
      /\ \E u, a \in event.task.stored :
            /\ {r \in event.task.stored : r.conversation_id = event.task.cid} = {u, a}
            /\ u.id < a.id
            /\ u.role = "user" /\ u.content = "Hi"
            /\ a.role = "assistant" /\ a.content = "Hello" )
    => event.messages = << [role |-> "system", content |-> "Be terse"],
                           [role |-> "user", content |-> "Hi"],
                           [role |-> "assistant", content |-> "Hello"],
                           [role |-> "user", content |-> "How are you?"] >>

C3_Rollback ==
    ( /\ event.op = "submit" /\ event.outcome = "inferenceError"
      /\ event.task.live /\ ~event.task.switched )
    => /\ conversation = event.task.pre
       /\ error # {}
       /\ event.task.wrote = {}

\* C4: a submit whose inference call succeeded and one of whose writes
\* failed leaves a mirror that ends with its user entry followed by the
\* assistant reply, and surfaces the write error.
C4_NoRollback ==
    ( /\ event.op = "submit" /\ event.outcome = "saveError"
      /\ event.task.live /\ ~event.task.switched )
    => /\ Len(conversation) >= 2
       /\ conversation[Len(conversation) - 1] = event.task.userMessage
       /\ conversation[Len(conversation)] = event.task.assistantMessage
       /\ "save" \in error

(* ------------------------------ delete -------------------------------- *)
\* C6: when delete(id) has completed without error, no message of id is
\* stored, and neither the store nor the in-memory list holds conversation id.
C6_Deleted ==
    event.op = "delete" /\ event.outcome = "ok" =>
        /\ \A r \in msgRows : r.conversation_id # event.task.id
        /\ \A r \in convRows : r.id # event.task.id
        /\ \A i \in DOMAIN conversations : conversations[i].id # event.task.id

(* ----------------------------- bootstrap ------------------------------ *)
\* C7: initializeDatabase run against a store that was already bootstrapped,
\* with no I/O failure thrown to its catch, ends without error and leaves
\* the schema and every stored row as they were.
C7_Idempotent ==
    ( /\ event.op = "init" /\ event.task.booted /\ ~event.task.fault )
    => /\ event.outcome = "ok" /\ db /\ dbError = ""
       /\ schema = event.task.snap.schema
       /\ convRows = event.task.snap.convRows
       /\ msgRows = event.task.snap.msgRows
       /\ settings = event.task.snap.settings

\* a second process start has bootstrapped a store that holds a conversation,
\* a turn and the prompt
C7_Witness ==
    /\ event.op = "init" /\ event.task.booted /\ runs = 2
    /\ ~event.task.fault /\ event.task.alter = "duplicate"
    /\ event.task.snap.schema = FullSchema
    /\ event.task.snap.convRows # {} /\ event.task.snap.msgRows # {}
    /\ event.task.snap.settings # {}

\* C8: when ALTER TABLE ADD COLUMN fails for a reason other than "duplicate
\* column name", initializeDatabase aborts: the handle is absent, the error is
\* surfaced, and neither the index statement nor the seed is executed.
C8_AlterAborts ==
    event.op = "init" /\ event.task.alter = "error" =>
        /\ event.outcome = "aborted" /\ ~db /\ dbError # ""
        /\ schema.index = event.task.snap.schema.index
        /\ settings = event.task.snap.settings

\* C9: whatever value v is stored under the system prompt key when
\* initializeDatabase starts, "" included, the select of that key yields v
\* when it has ended.
C9_SeedKeeps ==
    ( /\ event.op = "init"
      /\ SelectSetting(event.task.snap.settings, SystemPromptKey) # {} )
    => SelectSetting(settings, SystemPromptKey)
         = SelectSetting(event.task.snap.settings, SystemPromptKey)

\* the seed has run on a store whose prompt is the empty string
C9_Witness ==
    /\ event.op = "init" /\ event.outcome = "ok" /\ ~event.task.fault
    /\ SelectSetting(event.task.snap.settings, SystemPromptKey) = {""}
    /\ SelectSetting(settings, SystemPromptKey) = {""}

\* C10: once a bootstrap has run to its end the settings table holds exactly
\* one row for the system prompt key, whatever is saved afterwards.
C10_OneRow ==
    bootOK => Cardinality({r \in settings : r.key = SystemPromptKey}) = 1

\* a prompt other than the default has been saved over the seeded one
C10_Witness ==
    /\ bootOK /\ event.op = "save" /\ event.outcome = "ok"
    /\ event.value # DefaultPrompt
    /\ settings = {[key |-> SystemPromptKey, value |-> event.value]}

(* --------------------------- list ordering ---------------------------- *)
\* C11: in every reachable store, each result of the select of a
\* conversation's messages lists them in the order they were inserted
\* (ascending row id), also when inserts received the same timestamp.
C11_AppendOrder ==
    \A cid \in 1..convSeq :
        LET mine == {r \in msgRows : r.conversation_id = cid}
            appended == CHOOSE p \in Perms(mine) :
                            \A i, j \in DOMAIN p : i < j => p[i].id < p[j].id
        IN  SelectMessages(msgRows, cid) = {Projection(appended)}

\* C12: in every reachable store, each result of the select of the
\* conversations lists the stored rows from the most recently created to the
\* earliest created (descending row id: ids are given in creation order).
C12_MostRecentFirst ==
    \A l \in SelectConversations(convRows) :
        \A i, j \in DOMAIN l : i < j => l[i].id > l[j].id

(* ----------------------------- concurrency ---------------------------- *)
\* C15: at most one inference call is unresolved in every reachable state,
\* and no submit is assembling its context while an inference call of an
\* earlier submit is unresolved.
C15_OneInFlight ==
    \A i, j \in DOMAIN submits :
        i < j /\ submits[i].pc = "infer" =>
            submits[j].pc \notin {"history", "context", "infer"}

\* C16: when a submit made in conversation A completes (reply or failure)
\* while another conversation B is the active one and B's reload has ended,
\* the mirror, which shows B, is left as the completing handler found it.
C16_MirrorOfB ==
    ( /\ event.op = "submit" /\ event.task.live /\ event.task.switched
      /\ location.page = "chat" /\ location.id # event.task.cid
      /\ reloads = <<>>
      /\ event.outcome \in {"ok", "saveError", "inferenceError"} )
    => conversation = event.mirror

(* ------------------------- order within submit ------------------------ *)
\* C17: as soon as a submit has issued its first store read, and as long as
\* it is awaiting a read or the inference call, the mirror of the mounted
\* page is the mirror found at the click followed by the user entry, and
\* the submit has written nothing.
C17_OptimisticFirst ==
    \A i \in DOMAIN submits :
        LET t == submits[i]
        IN  t.live /\ t.pc \in {"history", "context", "infer"} =>
                /\ conversation = Append(t.pre, t.userMessage)
                /\ t.wrote = {}

\* a submit made on a mirror that already shows a turn is awaiting its
\* first read
C17_Witness ==
    \E i \in DOMAIN submits :
        /\ submits[i].live /\ submits[i].pc = "history"
        /\ Len(submits[i].pre) = 2
        /\ conversation = Append(submits[i].pre, submits[i].userMessage)

C13_RoundTrip ==
    LET stored == SelectSetting(settings, SystemPromptKey)
        expected == IF saved # <<>> THEN saved[Len(saved)]
                    ELSE IF stored = {} THEN DefaultPrompt
                    ELSE CHOOSE v \in stored : TRUE
    IN  /\ event.op = "get" /\ event.outcome = "ok" =>
              /\ event.value = expected
              /\ settingsPage.context = expected /\ settingsPage.error = ""
        /\ event.op = "invoke" /\ event.task.live =>
              {m \in Range(event.messages) : m.role = "system"} =
                 IF expected # "" THEN {Msg("system", expected)} ELSE {}
        /\ event.op = "save" /\ event.outcome = "ok" =>
              stored = {event.value} /\ event.value = saved[Len(saved)]

\* the settings page, opened again after a process restart, shows the later
\* of two different values saved before
C13_Witness ==
    /\ event.op = "get" /\ event.outcome = "ok"
    /\ Len(saved) = 2 /\ saved[1] # saved[2]
    /\ event.value = saved[2] /\ runs = 2

(* -------------------------- store unavailable ------------------------- *)
\* C14: when initializeDatabase has aborted the handle is absent and the
\* error is shown; and in every state with an absent handle no create,
\* delete, reload, submit or settings fetch is in progress, no settings page
\* is mounted, and the step that led to the state was not the return of a
\* create, delete, reload, submit, get or save.
C14_Disabled ==
    /\ event.op = "init" /\ event.outcome = "aborted" => ~db /\ dbError # ""
    /\ ~db =>
          /\ creates = Idle /\ deletes = Idle
          /\ reloads = <<>> /\ submits = <<>>
          /\ ~settingsPage.mounted
          /\ event.op \in {"none", "init"}

\* the second process start has aborted on a store in which a prompt had been
\* saved, and the user has gone to the settings route
C14_Witness ==
    /\ ~db /\ init[1].pc = "done" /\ dbError = "init" /\ runs = 2
    /\ saved # <<>> /\ location = SettingsRoute /\ clicks = MaxClicks

(* ----------------------------- read errors ---------------------------- *)
\* C19 as stated: when the select of a reload fails the mirror is what it
\* was, when the select of the conversation list fails the in-memory list is
\* what it was, and in both cases an error is shown.
C19_ReadErrorKeeps ==
    /\ event.op = "reload" /\ event.outcome = "error" =>
          conversation = event.mirror /\ error # {}
    /\ event.op = "list" /\ event.outcome = "error" =>
          conversations = event.before /\ dbError # ""

\* C19: when the select of a reload fails the mirror is emptied and the
\* history error is shown; when the select of the conversation list fails
\* the in-memory list is what it was and the load error is shown.
C19_ReadError ==
    /\ event.op = "reload" /\ event.outcome = "error" =>
          conversation = <<>> /\ error = {"history"}
    /\ event.op = "list" /\ event.outcome = "error" =>
          conversations = event.before /\ dbError = "load"

\* a reload has failed on a page whose mirror showed a stored turn
C19_Witness ==
    /\ event.op = "reload" /\ event.outcome = "error"
    /\ Len(event.mirror) = 2 /\ conversation = <<>>

(* ---------------------------- partial delete -------------------------- *)
\* C20: delete(id) deletes the messages of id first and the conversation
\* row in a later step. When the first statement fails the handler ends with
\* the error shown, the messages and the row of id as they were and the
\* conversation in the in-memory list. When the first succeeds and the
\* second fails the error is shown, the row of id is still stored and
\* listed and the conversation is still in the in-memory list (when the row
\* was stored at the click), and none of the messages id had is stored.
C20_PartialDelete ==
    LET listed(t) == \A l \in SelectConversations(convRows) :
                        \E i \in DOMAIN l : l[i].id = t.id
        shown(t) == \E i \in DOMAIN conversations : conversations[i].id = t.id
    IN  /\ deletes.pc = "messages" /\ deletes.ok =>
              /\ deletes.had \cap msgRows = {}
              /\ deletes.row \subseteq convRows
        /\ event.op = "delete" /\ event.outcome = "error"
                /\ event.task.pc = "messages" =>
              /\ dbError = "delete"
              /\ event.task.had = {r \in msgRows : r.conversation_id = event.task.id}
              /\ event.task.row \subseteq convRows
              /\ event.task.row # {} => listed(event.task) /\ shown(event.task)
        /\ event.op = "delete" /\ event.outcome = "error"
                /\ event.task.pc = "row" =>
              /\ dbError = "delete"
              /\ \A r \in msgRows : r.conversation_id # event.task.id
              /\ event.task.row \subseteq convRows
              /\ event.task.row # {} => listed(event.task) /\ shown(event.task)

\* the row delete of a conversation that held a turn has failed after its
\* messages were deleted
C20_Witness ==
    /\ event.op = "delete" /\ event.outcome = "error" /\ event.task.pc = "row"
    /\ Cardinality(event.task.had) = 2 /\ event.task.row # {}
    /\ \A r \in msgRows : r.conversation_id # event.task.id
    /\ \E r \in convRows : r.id = event.task.id

(* ------------------------------- reload ------------------------------- *)
\* C21: when a reload has completed successfully and no submit, create or
\* delete is in flight, the mirror is a result of the select of the messages
\* of the active conversation on the rows now stored.
C21_ReloadShowsStore ==
    ( /\ event.op = "reload" /\ event.outcome = "ok"
      /\ submits = <<>> /\ creates = Idle /\ deletes = Idle )
    => conversation \in SelectMessages(msgRows, location.id)


(* ----------------------------- bootstrap first ------------------------ *)
\* C22: while an initializeDatabase call has not returned, no create, delete,
\* reload, submit or settings fetch is in progress, no settings page is
\* mounted, and the step that led to the state was not the return of one of
\* these operations; also when the mount effect has run twice.
C22_BootstrapFirst ==
    (\E i \in DOMAIN init : init[i].pc # "done") =>
        /\ creates = Idle /\ deletes = Idle
        /\ reloads = <<>> /\ submits = <<>>
        /\ ~settingsPage.mounted
        /\ event.op \in {"none", "init"}

(* ------------------------------- create ------------------------------- *)
\* C23: with the create as the only writer, when handleNewChat has navigated
\* the route is the chat of the row its INSERT added, and that conversation
\* is in the in-memory list.
C23_CreateReturnsNew ==
    ( event.op = "create" /\ event.outcome = "ok" ) =>
        /\ location = ChatRoute(event.task.new)
        /\ \E i \in DOMAIN conversations : conversations[i].id = event.task.new

\* C24: every step that adds a conversation row gives it an id greater than
\* the id of every stored row and greater than the sequence value of the
\* table, which is never below a stored id and never decreases: the id is
\* greater than every id assigned before, deleted or not.
C24_IdsIncrease ==
    [][ /\ \A r \in convRows' \ convRows :
              /\ \A q \in convRows : q.id < r.id
              /\ r.id > convSeq
        /\ \A r \in convRows' : r.id <= convSeq'
        /\ \A r, q \in convRows' : r.id = q.id => r = q
        /\ convSeq' >= convSeq ]_vars

\* a create has inserted a row after the conversation stored first was deleted
C24_Witness ==
    /\ creates.pc = "inserted" /\ creates.ok
    /\ \E r \in convRows : r.id = creates.new
    /\ ~\E r \in convRows : r.id = 1

(* ------------------------------ migration ----------------------------- *)
\* C25: when initializeDatabase has returned without an error, whatever the
\* store held before, chat_messages has the conversation_id column and its
\* CHECK accepts exactly the roles user, assistant and system.
C25_DocumentedSchema ==
    ( event.op = "init" /\ event.outcome = "ok" /\ ~event.task.fault
      /\ event.task.alter # "error" ) =>
        /\ schema.chat_messages /\ schema.conversation_id
        /\ schema.roles = AllRoles

\* C26: every stored message has the role user, assistant or system, and
\* on every schema the store can have an insert into chat_messages with
\* another role has the error as its only outcome (no row is written).
C26_RolesChecked ==
    /\ \A r \in msgRows : r.role \in AllRoles
    /\ \A role \in RoleInputs \ AllRoles :
          PersistResults(Msg(role, "Hi")) = {<<"error">>}

\* a submit has written its two rows into the migrated table of the earlier
\* version
C26_Witness ==
    /\ schema.roles = LegacyRoles /\ schema.conversation_id
    /\ \E r \in msgRows : r.conversation_id # NULL /\ r.role = "assistant"
    /\ event.op = "submit" /\ event.outcome = "ok"

C28_AbsentTolerated ==
    [][ LET scoped == msgSeq' - Cardinality({r \in msgRows' : r.conversation_id = NULL})
        IN  /\ \A r \in msgRows : r.conversation_id = NULL => r \in msgRows'
            /\ event'.op = "init" /\ event'.outcome = "aborted" =>
                   event'.task.fault \/ event'.task.alter = "error"
            /\ event'.op = "reload" /\ event'.outcome = "ok" =>
                   Len(event'.task.result[2]) <= scoped
            /\ event'.op = "invoke" => Len(event'.messages) <= 2 + scoped ]_vars

\* the delete of a conversation has removed the row a submit had written and
\* left the two rows of the earlier version
C28_Witness ==
    /\ event.op = "delete" /\ event.outcome = "ok" /\ event.task.had # {}
    /\ msgRows = LegacyTurn

(* -------------------------------- turns ------------------------------- *)
\* C29: when no submit is in flight, every stored user message with a
\* conversation_id is immediately followed, in insertion order, by an
\* assistant row of the same conversation.
C29_CompleteTurns ==
    submits = <<>> =>
        \A r \in msgRows :
            r.role = "user" /\ r.conversation_id # NULL =>
                \E q \in msgRows :
                    /\ q.id = r.id + 1
                    /\ q.role = "assistant"
                    /\ q.conversation_id = r.conversation_id

(* ------------------------------ immutable ----------------------------- *)
\* C30: on every step a stored message row either stays as it is, or it is
\* gone, no row has its id, and the step is the DELETE FROM chat_messages
\* of handleDeleteConversation for the conversation of the row.
C30_Immutable ==
    [][ \A r \in msgRows :
          \/ r \in msgRows'
          \/ /\ ~\E q \in msgRows' : q.id = r.id
             /\ deletes = Idle /\ deletes'.pc = "messages" /\ deletes'.ok
             /\ deletes'.id = r.conversation_id ]_vars

\* a submit has added a row to the store that held the two rows of the
\* earlier version, and the delete of its conversation has removed that row
\* and no other
C30_Witness ==
    /\ event.op = "delete" /\ event.outcome = "ok"
    /\ Cardinality(event.task.had) = 1
    /\ \A r \in event.task.had : r.id = 3 /\ r.conversation_id = event.task.id
    /\ Cardinality(msgRows) = 2

(* ------------------------------ rollback ------------------------------ *)
\* C31: when the outer catch of a submit removes the last entry of the
\* mirror of the mounted page, the mirror it found was the mirror of the
\* click followed by the submit's own user entry, so the entry removed is
\* that entry.
C31_RollbackOwn ==
    ( /\ event.op = "submit" /\ event.task.live
      /\ event.outcome \in {"readError", "inferenceError"}
      /\ event.mirror # <<>> )
    => event.mirror = Append(event.task.pre, event.task.userMessage)


(* ------------------------ referential integrity ----------------------- *)
\* C32: in every state, every stored message whose conversation_id is present
\* names a conversation row that is stored.
C32_Referential ==
    \A r \in msgRows :
        r.conversation_id # NULL => \E c \in convRows : c.id = r.conversation_id


(* -------------------------- overlapping reloads ----------------------- *)
\* C33: when the last reload in flight has resolved with rows, no read has
\* failed and no submit or delete is in progress, the mirror is a result of
\* the select of the
\* messages of the conversation that is active now, whichever reload
\* resolved last.
C33_ActiveWins ==
    ( /\ event.op = "reload" /\ event.outcome = "ok" /\ event.pending = 0
      /\ location.page = "chat" /\ error = {}
      /\ submits = <<>> /\ deletes = Idle )
    => conversation \in SelectMessages(msgRows, location.id)


(* ------------------------ conversation of a submit -------------------- *)
\* C34: every message row a step adds is written by a submit in flight under
\* the conversation that was active at its click and holds one of the two
\* messages of its turn; the history a submit sends to the inference call is
\* a result of the select of the messages of that conversation on the rows
\* stored at the click.
C34_OwnConversation ==
    [][ /\ \A r \in msgRows' \ msgRows :
              \E i \in DOMAIN submits :
                  /\ i \in DOMAIN submits'
                  /\ r.id \in submits'[i].wrote \ submits[i].wrote
                  /\ r.conversation_id = submits[i].cid
                  /\ Msg(r.role, r.content) \in
                         {submits[i].userMessage, submits'[i].assistantMessage}
        /\ event'.op = "invoke" =>
              event'.task.historyMessages \in
                  SelectMessages(event'.task.stored, event'.task.cid) ]_vars

\* a submit made in one conversation has ended with both rows written while
\* another conversation was the active one, and the rows are stored under the
\* conversation of the click
C34_Witness ==
    /\ event.op = "submit" /\ event.outcome = "ok" /\ event.task.switched
    /\ location.page = "chat" /\ location.id # event.task.cid
    /\ Cardinality(event.task.wrote) = 2
    /\ \A r \in msgRows : r.id \in event.task.wrote => r.conversation_id = event.task.cid
    /\ \E r \in msgRows : r.id \in event.task.wrote


(* --------------------------- mirror and store ------------------------- *)
\* C35: when a submit has ended with its reply and both rows written, on the
\* page it was made on and with no conversation switch since the click, the
\* select of the messages of the active conversation has one result, the
\* mirror: a reload issued now leaves the mirror as it is.
C35_MirrorIsList ==
    ( /\ event.op = "submit" /\ event.outcome = "ok"
      /\ event.task.live /\ ~event.task.switched
      /\ location.page = "chat" /\ location.id = event.task.cid )
    => SelectMessages(msgRows, location.id) = {conversation}


(* ---------------------------- submit guard ---------------------------- *)
\* C36: a form submit is either rejected or accepted. It is rejected exactly
\* when the typed text is white space only or empty, no model is selected, the
\* loading flag is set, the handle is absent or the conversation id is zero or
\* not a number, and then the mirror, the store, the error, the loading flag
\* and the submits in flight are unchanged. When it is accepted, the entry
\* appended to the mirror and kept as the pending message is the typed text
\* without the white space at its ends; the last message of every inference
\* call and every user row written are the pending message of their submit.
C36_GuardAndTrim ==
    [][ LET Blank(t) == \A k \in 1..Len(t) : SubSeq(t, k, k) \in {" ", "\t", "\n"}
            Stripped(t, c) ==
                /\ c = "" \/ (~Blank(Head(c)) /\ ~Blank(SubSeq(c, Len(c), Len(c))))
                /\ \E a, b \in 0..Len(t) :
                      /\ a + b <= Len(t)
                      /\ Blank(SubSeq(t, 1, a))
                      /\ Blank(SubSeq(t, Len(t) - b + 1, Len(t)))
                      /\ c = SubSeq(t, a + 1, Len(t) - b)
            Refused(t) ==
                \/ Blank(t) \/ selectedModel = "" \/ isLoading \/ ~db
                \/ location.id \in {0, NaN}
        IN  /\ event'.op = "rejected" =>
                  /\ Refused(event'.typed)
                  /\ UNCHANGED <<conversation, storeVars, error, isLoading, submits>>
            /\ Len(submits') > Len(submits) =>
                  LET t == submits'[Len(submits')]
                  IN  /\ ~Refused(t.typed)
                      /\ Stripped(t.typed, t.userMessage.content)
                      /\ t.userMessage.role = "user"
                      /\ conversation' = Append(conversation, t.userMessage)
                      /\ isLoading' /\ error' = {}
                      /\ UNCHANGED storeVars
            /\ event'.op = "invoke" =>
                  /\ Stripped(event'.task.typed, event'.task.userMessage.content)
                  /\ event'.messages[Len(event'.messages)] = event'.task.userMessage
            /\ \A r \in msgRows' \ msgRows :
                  r.role = "user" =>
                      \E i \in DOMAIN submits :
                          /\ r.id \in submits'[i].wrote \ submits[i].wrote
                          /\ Stripped(submits[i].typed, r.content) ]_vars

\* a text typed with white space before it was accepted and is shown without
\* it; while its submit is in flight a second form submit was refused
C36_Witness ==
    /\ event.op = "rejected" /\ event.typed = "Hi"
    /\ isLoading /\ Len(submits) = 1
    /\ submits[1].typed = " Hi"
    /\ conversation = <<Msg("user", "Hi")>>


(* ------------------------- list and store ----------------------------- *)
\* C37: when no create or delete is in progress and no store statement has
\* failed so far, the in-memory list holds each stored conversation once and
\* no other; a delete that ends in its catch has left the in-memory list as it
\* found it.
C37_ListIsStore ==
    /\ ( creates = Idle /\ deletes = Idle /\ dbError = "" ) =>
          /\ {c.id : c \in Range(conversations)} = {r.id : r \in convRows}
          /\ Len(conversations) = Cardinality(convRows)
    /\ ( event.op = "delete" /\ event.outcome = "error" ) =>
          \E c \in Range(conversations) : c.id = event.task.id


(* --------------------------- loading flag ----------------------------- *)
\* C38: when every awaited statement and inference call resolves, a state
\* with a submit in flight or the loading flag set is always followed by a
\* state with no submit in flight and the loading flag clear.
C38_NeverStuck ==
    (submits # <<>> \/ isLoading) ~> (submits = <<>> /\ ~isLoading)

\* a submit whose second write failed has returned on its page, and the
\* loading flag is clear
C38_Witness ==
    /\ event.op = "submit" /\ event.outcome = "saveError" /\ event.task.live
    /\ event.task.pc = "savedAssistant"
    /\ submits = <<>> /\ reloads = <<>> /\ ~isLoading

====
